---- MODULE Spec2Model ----
(***************************************************************************)
(* The worker route of the error processing system                         *)
(* (src/app/api/worker/route.ts): the module-level memory store, the POST  *)
(* handler with its two timer suspensions, and the three classifier        *)
(* helpers.                                                                *)
(*                                                                         *)
(* JavaScript runs one synchronous segment of one handler at a time, so    *)
(* every action below is one segment of POST between two awaits:           *)
(*   Receive   lines 18-32  (body parsed, validation event, 500 ms timer)  *)
(*   Validate  lines 35-58  (input check, error event or workflow event,   *)
(*                           1000 ms timer)                                *)
(*   Process   lines 61-112 (classification, store update, memory_update   *)
(*                           and completed events, response)               *)
(* Segments of different requests interleave freely.                       *)
(*                                                                         *)
(* Error texts are sequences of one-character strings, so that trim,       *)
(* toLowerCase, includes and substring are computed on characters.         *)
(* Event ids are strings built with \o as the template literals build      *)
(* them.  The message and timestamp fields of events and records           *)
(* (new Date()) are not part of the model.                                 *)
(***************************************************************************)
EXTENDS Integers, Sequences, FiniteSets, TLC

VARIABLES
  memory,     \* the module-level store object (route.ts 5-14)
  reqs,       \* the POST runs, in order of arrival: input, position, response
  published,  \* every event handed to realtimeEvents.emit, in emit order
  applied,    \* history: indices of the runs whose store update ran, in order
  subscribers \* the observers registered with the event hub, in order of
              \* registration: whether still registered, what they received

vars == <<memory, reqs, published, applied, subscribers>>

----------------------------------------------------------------------------
(* Bounds *)

MaxRequests == 2     \* POST runs per behaviour of Spec
MaxSerial == 11      \* POST runs per behaviour of SpecSerial
MaxLong == 2         \* POST runs per behaviour of SpecLong
MaxHubRequests == 1  \* POST runs per behaviour of SpecHub
MaxSubscribers == 2  \* observers per behaviour of SpecHub
MaxWords == 3        \* words per error text in SpecClassify

----------------------------------------------------------------------------
(* JavaScript values and strings *)

Min(a, b) == IF a < b THEN a ELSE b

Undefined == [t |-> "undefined", s |-> <<>>]
Null == [t |-> "null", s |-> <<>>]
Str(chars) == [t |-> "string", s |-> chars]
Num(digits) == [t |-> "number", s |-> digits]

\* !v for the JSON values a body can hold in its error field
Falsy(v) ==
  \/ v.t \in {"undefined", "null"}
  \/ v.t = "string" /\ v.s = <<>>
  \/ v.t = "number" /\ v.s = <<"0">>

\* the characters String.prototype.trim removes, as far as the inputs use them
WhiteSpace == {" ", "\t", "\n"}

RECURSIVE TrimStart(_)
TrimStart(s) ==
  IF s # <<>> /\ Head(s) \in WhiteSpace THEN TrimStart(Tail(s)) ELSE s

RECURSIVE TrimEnd(_)
TrimEnd(s) ==
  IF s # <<>> /\ s[Len(s)] \in WhiteSpace
  THEN TrimEnd(SubSeq(s, 1, Len(s) - 1)) ELSE s

Trim(s) == TrimEnd(TrimStart(s))

\* the text is kept whole
SubstringWhole(s, a, b) == s

\* s.substring(a, b) for 0 <= a <= b
Substring(s, a, b) == SubSeq(s, a + 1, Min(b, Len(s)))

UpperChars ==
  <<"A", "B", "C", "D", "E", "F", "G", "H", "I", "J", "K", "L", "M",
    "N", "O", "P", "Q", "R", "S", "T", "U", "V", "W", "X", "Y", "Z">>
LowerChars ==
  <<"a", "b", "c", "d", "e", "f", "g", "h", "i", "j", "k", "l", "m",
    "n", "o", "p", "q", "r", "s", "t", "u", "v", "w", "x", "y", "z">>

ToLowerChar(c) ==
  IF \E i \in 1..26 : UpperChars[i] = c
  THEN LowerChars[CHOOSE i \in 1..26 : UpperChars[i] = c]
  ELSE c

ToLowerCase(s) == [i \in 1..Len(s) |-> ToLowerChar(s[i])]

Includes(s, kw) ==
  \E i \in 0..(Len(s) - Len(kw)) : SubSeq(s, i + 1, i + Len(kw)) = kw

----------------------------------------------------------------------------
(* The classifier helpers (route.ts 120-153) *)

KwSyntax == <<"s", "y", "n", "t", "a", "x">>
KwType == <<"t", "y", "p", "e">>
KwReference == <<"r", "e", "f", "e", "r", "e", "n", "c", "e">>
KwNetwork == <<"n", "e", "t", "w", "o", "r", "k">>
KwTimeout == <<"t", "i", "m", "e", "o", "u", "t">>
KwCritical == <<"c", "r", "i", "t", "i", "c", "a", "l">>
KwFatal == <<"f", "a", "t", "a", "l">>
KwError == <<"e", "r", "r", "o", "r">>
KwException == <<"e", "x", "c", "e", "p", "t", "i", "o", "n">>
KwWarning == <<"w", "a", "r", "n", "i", "n", "g">>

\* "type" tested before "syntax"
detectErrorTypeTypeFirst(error) ==
  LET lowerError == ToLowerCase(error) IN
  IF Includes(lowerError, KwType) THEN "Type Error"
  ELSE IF Includes(lowerError, KwSyntax) THEN "Syntax Error"
  ELSE IF Includes(lowerError, KwReference) THEN "Reference Error"
  ELSE IF Includes(lowerError, KwNetwork) THEN "Network Error"
  ELSE IF Includes(lowerError, KwTimeout) THEN "Timeout Error"
  ELSE "General Error"

detectErrorType(error) ==
  LET lowerError == ToLowerCase(error) IN
  IF Includes(lowerError, KwSyntax) THEN "Syntax Error"
  ELSE IF Includes(lowerError, KwType) THEN "Type Error"
  ELSE IF Includes(lowerError, KwReference) THEN "Reference Error"
  ELSE IF Includes(lowerError, KwNetwork) THEN "Network Error"
  ELSE IF Includes(lowerError, KwTimeout) THEN "Timeout Error"
  ELSE "General Error"

\* "error" and "exception" tested before "critical" and "fatal"
assessSeverityHighFirst(error) ==
  LET lowerError == ToLowerCase(error) IN
  IF Includes(lowerError, KwError) \/ Includes(lowerError, KwException)
    THEN "high"
  ELSE IF Includes(lowerError, KwCritical) \/ Includes(lowerError, KwFatal)
    THEN "critical"
  ELSE IF Includes(lowerError, KwWarning) THEN "medium"
  ELSE "low"

assessSeverity(error) ==
  LET lowerError == ToLowerCase(error) IN
  IF Includes(lowerError, KwCritical) \/ Includes(lowerError, KwFatal)
    THEN "critical"
  ELSE IF Includes(lowerError, KwError) \/ Includes(lowerError, KwException)
    THEN "high"
  ELSE IF Includes(lowerError, KwWarning) THEN "medium"
  ELSE "low"

\* the three tests chained with else, so that only the first match adds
generateSuggestionsFirstOnly(error) ==
  LET lowerError == ToLowerCase(error)
      base == <<"Review error logs for additional context",
                "Check recent code changes">>
  IN IF Includes(lowerError, KwSyntax)
     THEN base \o <<"Validate code syntax",
                    "Check for missing brackets or semicolons">>
     ELSE IF Includes(lowerError, KwNetwork)
     THEN base \o <<"Verify network connectivity", "Check API endpoints">>
     ELSE IF Includes(lowerError, KwTimeout)
     THEN base \o <<"Increase timeout duration", "Optimize query performance">>
     ELSE base

generateSuggestions(error) ==
  LET lowerError == ToLowerCase(error)
      base == <<"Review error logs for additional context",
                "Check recent code changes">>
      s1 == IF Includes(lowerError, KwSyntax)
            THEN base \o <<"Validate code syntax",
                           "Check for missing brackets or semicolons">>
            ELSE base
      s2 == IF Includes(lowerError, KwNetwork)
            THEN s1 \o <<"Verify network connectivity", "Check API endpoints">>
            ELSE s1
  IN IF Includes(lowerError, KwTimeout)
     THEN s2 \o <<"Increase timeout duration", "Optimize query performance">>
     ELSE s2

\* the workflowResult object literal of POST
WorkflowResult(error) ==
  [errorType |-> detectErrorType(error),
   severity |-> assessSeverity(error),
   suggestions |-> generateSuggestions(error)]

----------------------------------------------------------------------------
(* The store *)

WorkflowCap == 10

EmptyCounts == [k \in {} |-> 0]

InitMemory ==
  [totalErrors |-> 0,
   lastProcessed |-> Null,
   workflows |-> <<>>,
   statistics |-> [errorTypes |-> EmptyCounts,
                   severityCount |-> EmptyCounts,
                   averageProcessingTime |-> 0]]

\* the count is set to 1 instead of being raised
IncCountReset(counts, key) ==
  [k \in DOMAIN counts \cup {key} |-> IF k = key THEN 1 ELSE counts[k]]

\* every entry is raised, not only the one of the key
IncCountAll(counts, key) ==
  [k \in DOMAIN counts \cup {key} |->
     (IF k \in DOMAIN counts THEN counts[k] ELSE 0) + 1]

\* counts[key] = (counts[key] || 0) + 1
IncCount(counts, key) ==
  [k \in DOMAIN counts \cup {key} |->
     IF k = key
     THEN (IF key \in DOMAIN counts /\ counts[key] # 0
           THEN counts[key] ELSE 0) + 1
     ELSE counts[k]]

\* the new record is put at the end of the list
PushWorkflowAppend(workflows, record) ==
  SubSeq(workflows \o <<record>>, 1, Min(WorkflowCap, Len(workflows) + 1))

\* the new record is prepended and nothing is cut off
PushWorkflowUncapped(workflows, record) == <<record>> \o workflows

\* [workflowRecord, ...memory.workflows].slice(0, 10)
PushWorkflow(workflows, record) ==
  SubSeq(<<record>> \o workflows, 1, Min(WorkflowCap, Len(workflows) + 1))

\* the store update without the increment of totalErrors
ApplyResultNoTotal(m, eventId, result, error) ==
  [totalErrors |-> m.totalErrors,
   lastProcessed |-> Str(Substring(error, 0, 100)),
   workflows |-> PushWorkflow(m.workflows, [id |-> eventId, result |-> result]),
   statistics |->
     [errorTypes |-> IncCount(m.statistics.errorTypes, result.errorType),
      severityCount |-> IncCount(m.statistics.severityCount, result.severity),
      averageProcessingTime |-> m.statistics.averageProcessingTime]]

\* the store update of POST, lines 68-84, for a string error
ApplyResult(m, eventId, result, error) ==
  [totalErrors |-> m.totalErrors + 1,
   lastProcessed |-> Str(Substring(error, 0, 100)),
   workflows |-> PushWorkflow(m.workflows, [id |-> eventId, result |-> result]),
   statistics |->
     [errorTypes |-> IncCount(m.statistics.errorTypes, result.errorType),
      severityCount |-> IncCount(m.statistics.severityCount, result.severity),
      averageProcessingTime |-> m.statistics.averageProcessingTime]]

----------------------------------------------------------------------------
(* Events, responses and request bodies *)

NoData == [kind |-> "none"]
\* data: { memory } holds the store object itself, not a copy of it
MemoryRef == [kind |-> "memory"]
ResultData(result) == [kind |-> "result", result |-> result]

\* the value a reader of ev.data sees in the current state
DataOf(ev) ==
  IF ev.data.kind = "memory" THEN memory
  ELSE IF ev.data.kind = "result" THEN ev.data.result
  ELSE NoData

Event(r, id, type, status, data) ==
  [req |-> r, id |-> id, type |-> type, status |-> status, data |-> data]

\* realtimeEvents.emit: the event joins the publication sequence
Emit(log, ev) == Append(log, ev)

\* the event is handed to every observer, registered or not
DeliverToAll(subs, ev) ==
  [i \in 1..Len(subs) |-> [subs[i] EXCEPT !.received = Append(@, ev)]]

\* realtimeEvents.emit: the event is handed to every registered observer
Deliver(subs, ev) ==
  [i \in 1..Len(subs) |->
     IF subs[i].active THEN [subs[i] EXCEPT !.received = Append(@, ev)]
     ELSE subs[i]]

\* the synthetic event a new observer may get
ConnectedEvent ==
  [req |-> 0, id |-> "connected", type |-> "connected",
   status |-> "completed", data |-> NoData]

NoResponse == [status |-> 0]
InvalidInput == [status |-> 400, success |-> FALSE, error |-> "Invalid input"]
\* the catch block answering like the validation branch
ProcessingFailedAsInvalid ==
  [status |-> 400, success |-> FALSE, error |-> "Invalid input"]

ProcessingFailed ==
  [status |-> 500, success |-> FALSE, error |-> "Processing failed"]
\* Response.json serialises its argument when it is called
Success(result, m) ==
  [status |-> 200, success |-> TRUE, workflow |-> result, memory |-> m]

TxtSyntaxError ==
  <<"S", "y", "n", "t", "a", "x", " ", "E", "r", "r", "o", "r">>
TxtFatalTimeout ==
  <<"f", "a", "t", "a", "l", " ", "t", "i", "m", "e", "o", "u", "t">>
TxtBlank == <<" ", "\t">>

\* request.json() rejects (the body is not JSON) or destructuring throws
\* (the body is null): there is no error field and no eventId to read
Unread == [t |-> "unread", s |-> <<>>]
BadBody == [ok |-> FALSE, error |-> Unread, eventId |-> ""]
Body(error, eventId) == [ok |-> TRUE, error |-> error, eventId |-> eventId]

ErrorValues ==
  {Undefined, Str(<<>>), Str(TxtBlank), Num(<<"7">>),
   Str(TxtSyntaxError), Str(TxtFatalTimeout)}
EventIds == {"a", "a_memory"}
Bodies == {BadBody} \cup {Body(e, i) : e \in ErrorValues, i \in EventIds}

SerialBodies ==
  {Body(Str(TxtSyntaxError), "a"), Body(Str(TxtFatalTimeout), "b")}

TenChars == <<"0", "1", "2", "3", "4", "5", "6", "7", "8", "9">>
\* an error text of exactly 100 characters, and one of 104 characters whose
\* only keyword lies behind the 100th character
TxtHundred ==
  TenChars \o TenChars \o TenChars \o TenChars \o TenChars \o
  TenChars \o TenChars \o TenChars \o TenChars \o TenChars
TxtLong == TxtHundred \o <<"t", "y", "p", "e">>

LongBodies ==
  {Body(Str(TxtLong), "a"), Body(Str(TxtSyntaxError), "b"),
   Body(Str(TxtHundred), "c")}

\* the README's example text
TxtTypeError ==
  <<"T", "y", "p", "e", "E", "r", "r", "o", "r", ":", " ",
    "C", "a", "n", "n", "o", "t", " ", "r", "e", "a", "d", " ",
    "p", "r", "o", "p", "e", "r", "t", "y", " ",
    "'", "n", "a", "m", "e", "'", " ", "o", "f", " ",
    "u", "n", "d", "e", "f", "i", "n", "e", "d">>

\* words in several letter cases from which error texts are put together
WSyntax == <<"S", "y", "n", "t", "a", "x">>
WType == <<"T", "Y", "P", "E">>
WReference == <<"r", "e", "f", "e", "r", "e", "n", "c", "e">>
WNetwork == <<"N", "e", "t", "W", "o", "r", "k">>
WTimeout == <<"t", "i", "m", "e", "o", "u", "t">>
WCritical == <<"C", "R", "I", "T", "I", "C", "A", "L">>
WFatal == <<"F", "a", "t", "a", "l">>
WError == <<"e", "r", "r", "o", "r">>
WException == <<"E", "x", "c", "e", "p", "t", "i", "o", "n">>
WWarning == <<"w", "a", "r", "n", "i", "n", "g">>
WOops == <<"o", "o", "p", "s", " ">>

Words ==
  {WSyntax, WType, WReference, WNetwork, WTimeout, WCritical, WFatal,
   WError, WException, WWarning, WOops}

\* the texts of at most n words
RECURSIVE TextsOf(_)
TextsOf(n) ==
  IF n = 0 THEN {<<>>}
  ELSE LET shorter == TextsOf(n - 1)
       IN shorter \cup {t \o w : t \in shorter, w \in Words}

ClassifyTexts == (TextsOf(MaxWords) \ {<<>>}) \cup {TxtTypeError}
ClassifyBodies == {Body(Str(t), "a") : t \in ClassifyTexts}

\* the string values of the error field in the bodies above
Texts ==
  {v.s : v \in {e \in ErrorValues : e.t = "string"}}
    \cup {TxtLong, TxtHundred} \cup ClassifyTexts

\* lines 61-66: the classifier is pure, its results on these texts are
\* tabulated once
Classified == [text \in Texts |-> WorkflowResult(text)]

----------------------------------------------------------------------------
(* The POST handler *)

\* the check without the trim
ValidationFailedNoTrim(error) == Falsy(error)

\* line 35: !error || error.trim().length === 0, where it does not throw
ValidationFailed(error) ==
  Falsy(error) \/ (error.t = "string" /\ Len(Trim(error.s)) = 0)

\* the completed event emitted before the memory_update event
CompletionEventsSwapped(r, eventId, workflowResult) ==
  <<Event(r, eventId, "completed", "completed", ResultData(workflowResult)),
    Event(r, eventId \o "_memory", "memory_update", "completed", MemoryRef)>>

\* lines 86-106: the two events of the last segment, in emit order
CompletionEvents(r, eventId, workflowResult) ==
  <<Event(r, eventId \o "_memory", "memory_update", "completed", MemoryRef),
    Event(r, eventId, "completed", "completed", ResultData(workflowResult))>>

Init ==
  /\ memory = InitMemory
  /\ reqs = <<>>
  /\ published = <<>>
  /\ applied = <<>>
  /\ subscribers = <<>>

\* lines 18-32: the body is read; a body that cannot be read or destructured
\* goes to the catch block, any other emits the validation event and waits
Receive(body) ==
  LET r == Len(reqs) + 1 IN
  IF ~body.ok
  THEN /\ reqs' = Append(reqs, [error |-> body.error, eventId |-> body.eventId,
                                pc |-> "done", response |-> ProcessingFailed])
       /\ UNCHANGED <<memory, published, applied, subscribers>>
  ELSE /\ reqs' = Append(reqs, [error |-> body.error, eventId |-> body.eventId,
                                pc |-> "validating", response |-> NoResponse])
       /\ published' =
            Emit(published, Event(r, body.eventId \o "_validation",
                                  "validation", "processing", NoData))
       /\ subscribers' =
            Deliver(subscribers, Event(r, body.eventId \o "_validation",
                                       "validation", "processing", NoData))
       /\ UNCHANGED <<memory, applied>>

\* lines 35-58, after the 500 ms timer
Validate(r) ==
  /\ reqs[r].pc = "validating"
  /\ LET error == reqs[r].error
         eventId == reqs[r].eventId
     IN
     IF ValidationFailed(error)
     THEN /\ published' =
               Emit(published, Event(r, eventId \o "_error",
                                     "validation", "error", NoData))
          /\ subscribers' =
               Deliver(subscribers, Event(r, eventId \o "_error",
                                          "validation", "error", NoData))
          /\ reqs' = [reqs EXCEPT ![r].pc = "done",
                                  ![r].response = InvalidInput]
     ELSE IF error.t # "string"
     THEN \* error.trim is not a function: TypeError, caught at line 113
          /\ reqs' = [reqs EXCEPT ![r].pc = "done",
                                  ![r].response = ProcessingFailed]
          /\ UNCHANGED <<published, subscribers>>
     ELSE /\ published' =
               Emit(published, Event(r, eventId \o "_workflow",
                                     "workflow", "processing", NoData))
          /\ subscribers' =
               Deliver(subscribers, Event(r, eventId \o "_workflow",
                                          "workflow", "processing", NoData))
          /\ reqs' = [reqs EXCEPT ![r].pc = "processing"]
  /\ UNCHANGED <<memory, applied>>

\* lines 61-112, after the 1000 ms timer
Process(r) ==
  /\ reqs[r].pc = "processing"
  /\ LET error == reqs[r].error.s
         eventId == reqs[r].eventId
         workflowResult == Classified[error]
         events == CompletionEvents(r, eventId, workflowResult)
         updated == ApplyResult(memory, eventId, workflowResult, error)
     IN
     /\ memory' = updated
     /\ applied' = Append(applied, r)
     /\ published' = Emit(Emit(published, events[1]), events[2])
     /\ subscribers' = Deliver(Deliver(subscribers, events[1]), events[2])
     /\ reqs' = [reqs EXCEPT ![r].pc = "done",
                             ![r].response = Success(workflowResult, updated)]

Next ==
  \/ \E body \in Bodies : Len(reqs) < MaxRequests /\ Receive(body)
  \/ \E r \in 1..Len(reqs) : Validate(r)
  \/ \E r \in 1..Len(reqs) : Process(r)

Spec == Init /\ [][Next]_vars

\* requests submitted one at a time: the next one is sent when the previous
\* response has arrived
AllDone == \A r \in 1..Len(reqs) : reqs[r].pc = "done"

NextSerial ==
  \/ \E body \in SerialBodies :
       Len(reqs) < MaxSerial /\ AllDone /\ Receive(body)
  \/ \E r \in 1..Len(reqs) : Validate(r)
  \/ \E r \in 1..Len(reqs) : Process(r)

SpecSerial == Init /\ [][NextSerial]_vars

\* interleaved requests with texts longer and shorter than 100 characters
NextLong ==
  \/ \E body \in LongBodies : Len(reqs) < MaxLong /\ Receive(body)
  \/ \E r \in 1..Len(reqs) : Validate(r)
  \/ \E r \in 1..Len(reqs) : Process(r)

SpecLong == Init /\ [][NextLong]_vars

\* one request with an error text drawn from the word texts: the classifier
\* helpers are applied to it in Process
NextClassify ==
  \/ \E body \in ClassifyBodies : reqs = <<>> /\ Receive(body)
  \/ \E r \in 1..Len(reqs) : Validate(r)
  \/ \E r \in 1..Len(reqs) : Process(r)

SpecClassify == Init /\ [][NextClassify]_vars

\* realtimeEvents.subscribe: a new observer is registered; it may get the
\* connected event, and it gets the events emitted from now on
Subscribe(greet) ==
  /\ subscribers' =
       Append(subscribers,
              [active |-> TRUE,
               received |-> IF greet THEN <<ConnectedEvent>> ELSE <<>>,
               from |-> Len(published),
               upto |-> Len(published)])
  /\ UNCHANGED <<memory, reqs, published, applied>>

\* the observer unsubscribes or its channel is found closed
Unsubscribe(s) ==
  /\ subscribers[s].active
  /\ subscribers' = [subscribers EXCEPT ![s].active = FALSE,
                                        ![s].upto = Len(published)]
  /\ UNCHANGED <<memory, reqs, published, applied>>

HubBodies == {Body(Str(TxtSyntaxError), "a"), Body(Str(TxtBlank), "b")}

\* requests running while observers come and go
NextHub ==
  \/ \E body \in HubBodies : Len(reqs) < MaxHubRequests /\ Receive(body)
  \/ \E r \in 1..Len(reqs) : Validate(r)
  \/ \E r \in 1..Len(reqs) : Process(r)
  \/ \E greet \in BOOLEAN :
       Len(subscribers) < MaxSubscribers /\ Subscribe(greet)
  \/ \E s \in 1..Len(subscribers) : Unsubscribe(s)

SpecHub == Init /\ [][NextHub]_vars

----------------------------------------------------------------------------
(* Auxiliary definitions for the properties *)

Runs == 1..Len(reqs)

IsPrefix(s, t) == Len(s) <= Len(t) /\ SubSeq(t, 1, Len(s)) = s

\* the events run r published, in publication order
EventsOf(r) == SelectSeq(published, LAMBDA e : e.req = r)

\* their <<type, status>> pairs
KindsOf(r) ==
  LET es == EventsOf(r) IN [i \in 1..Len(es) |-> <<es[i].type, es[i].status>>]

SuccessOrder ==
  <<<<"validation", "processing">>, <<"workflow", "processing">>,
    <<"memory_update", "completed">>, <<"completed", "completed">>>>
FailureOrder ==
  <<<<"validation", "processing">>, <<"validation", "error">>>>

RECURSIVE SumCounts(_)
SumCounts(counts) ==
  IF DOMAIN counts = {} THEN 0
  ELSE LET k == CHOOSE x \in DOMAIN counts : TRUE
       IN counts[k] + SumCounts([x \in DOMAIN counts \ {k} |-> counts[x]])

\* the error field is missing, empty or all white space
BlankError(error) ==
  \/ error.t = "undefined"
  \/ error.t = "string" /\ \A i \in 1..Len(error.s) : error.s[i] \in WhiteSpace

\* positions in the publication sequence of the events of run r
PositionsOf(r) == {i \in 1..Len(published) : published[i].req = r}

\* runs r and q were in flight at the same time: each published its first
\* event before the other published its last
Overlapped(r, q) ==
  /\ r # q
  /\ \E i \in PositionsOf(r), j \in PositionsOf(q) : i < j
  /\ \E i \in PositionsOf(r), j \in PositionsOf(q) : j < i

----------------------------------------------------------------------------
(* C1: the events of one request appear in the publication sequence in the *)
(* order validation(processing), workflow, memory_update, completed, or    *)
(* validation(processing), validation(error), under every interleaving of  *)
(* requests; a request answered with success has published exactly the    *)
(* first sequence, one answered "Invalid input" exactly the second, and    *)
(* nothing follows a validation event with status error.                   *)
C1_EventOrder ==
  \A r \in Runs :
    /\ IsPrefix(KindsOf(r), SuccessOrder) \/ IsPrefix(KindsOf(r), FailureOrder)
    /\ reqs[r].response.status = 200 => KindsOf(r) = SuccessOrder
    /\ reqs[r].response.status = 400 => KindsOf(r) = FailureOrder

\* a successful and a rejected request, both finished, whose events interleave
C1_Witness ==
  \E r, q \in Runs :
    /\ reqs[r].response.status = 200 /\ KindsOf(r) = SuccessOrder
    /\ reqs[q].response.status = 400 /\ KindsOf(q) = FailureOrder
    /\ Overlapped(r, q)

(* C2: a request whose body was read and whose error text is missing,      *)
(* empty or all white space never changes the store in any of its steps,   *)
(* and ends with exactly the events validation(processing),                *)
(* validation(error) and the response {success: false, error: "Invalid     *)
(* input"}, status 400, whatever other requests are in flight.             *)
C2_BlankInputStep ==
  \A r \in 1..Len(reqs') :
    (BlankError(reqs'[r].error) /\ (r > Len(reqs) \/ reqs'[r] # reqs[r]))
      => /\ memory' = memory
         /\ reqs'[r].pc = "done" =>
              /\ reqs'[r].response =
                   [status |-> 400, success |-> FALSE, error |-> "Invalid input"]
              /\ LET es == SelectSeq(published', LAMBDA e : e.req = r)
                 IN /\ Len(es) = 2
                    /\ es[1].type = "validation" /\ es[1].status = "processing"
                    /\ es[2].type = "validation" /\ es[2].status = "error"
              /\ published'[Len(published')].req = r

C2_BlankInput == [][C2_BlankInputStep]_vars

\* a white-space request was rejected while another run was in flight and
\* the store already held a result
C2_Witness ==
  \E r, q \in Runs :
    /\ reqs[r].error.t = "string" /\ reqs[r].error.s # <<>>
    /\ BlankError(reqs[r].error)
    /\ reqs[r].response.status = 400
    /\ Overlapped(r, q)
    /\ memory.totalErrors = 1

(* C3: in every state between two handler segments totalErrors equals the  *)
(* sum of the errorTypes counts and the sum of the severityCount counts.   *)
C3_CountsAgree ==
  /\ memory.totalErrors = SumCounts(memory.statistics.errorTypes)
  /\ memory.totalErrors = SumCounts(memory.statistics.severityCount)

\* the same error type was counted twice while another run was in flight
C3_Witness ==
  /\ \E k \in DOMAIN memory.statistics.errorTypes :
       memory.statistics.errorTypes[k] = 2
  /\ memory.totalErrors = 2

(* C4: when all requests have finished, however their segments were        *)
(* interleaved, totalErrors, the sum of the errorTypes counts and the sum  *)
(* of the severityCount counts all equal the number N of requests that     *)
(* were answered with success, and the store is the one that N store       *)
(* updates applied one after the other, in the order they ran, produce.    *)
Succeeded == {r \in Runs : reqs[r].response.status = 200}

RECURSIVE SerialStore(_)
SerialStore(order) ==
  IF order = <<>> THEN InitMemory
  ELSE LET r == order[Len(order)]
       IN ApplyResult(SerialStore(SubSeq(order, 1, Len(order) - 1)),
                      reqs[r].eventId, Classified[reqs[r].error.s],
                      reqs[r].error.s)

C4_NoLostUpdate ==
  AllDone =>
    /\ memory.totalErrors = Cardinality(Succeeded)
    /\ SumCounts(memory.statistics.errorTypes) = Cardinality(Succeeded)
    /\ SumCounts(memory.statistics.severityCount) = Cardinality(Succeeded)
    /\ Len(applied) = Cardinality(Succeeded)
    /\ memory = SerialStore(applied)

\* two valid requests were in flight together and both have finished
C4_Witness ==
  /\ AllDone
  /\ \E r, q \in Succeeded : Overlapped(r, q)
  /\ memory.totalErrors = 2

(* C5: workflows never holds more than 10 records; after k store updates   *)
(* it holds the records of the min(10, k) most recent ones, newest first,  *)
(* so the record of the 11th most recent update is the one dropped.        *)
RecordOf(r) == [id |-> reqs[r].eventId, result |-> Classified[reqs[r].error.s]]

C5_RecentWorkflows ==
  LET k == Len(applied)
      n == Min(10, k)
  IN /\ Len(memory.workflows) <= 10
     /\ Len(memory.workflows) = n
     /\ \A i \in 1..n : memory.workflows[i] = RecordOf(applied[k + 1 - i])

\* eleven updates ran; the first one, with id "a", is gone and the oldest
\* record kept is the second one, with id "b"
C5_Witness ==
  /\ Len(applied) = 11
  /\ reqs[applied[1]].eventId = "a"
  /\ reqs[applied[2]].eventId = "b"
  /\ Len(memory.workflows) = 10
  /\ memory.workflows[10].id = "b"

(* C6: every request run that published its validation-started event and   *)
(* has returned a response has also published a terminal event: its        *)
(* completed event or an event with status error.                          *)
C6_TerminalEvent ==
  \A r \in Runs :
    (reqs[r].pc = "done" /\ EventsOf(r) # <<>>)
      => \E i \in PositionsOf(r) :
           \/ published[i].type = "completed" /\ published[i].status = "completed"
           \/ published[i].status = "error"

(* C7: a request run that fails unexpectedly is caught: the caller gets    *)
(* {success: false, error: "Processing failed"} with status 500, the step  *)
(* in which it fails leaves the store as it was, the run is not counted in *)
(* totalErrors and has no record in the store, and the counters of the     *)
(* store still agree.  The failures the handler can meet are a body that   *)
(* cannot be read and an error value that is neither falsy nor a string,   *)
(* on which error.trim() throws.                                           *)
Throws(run) ==
  \/ run.error.t = "unread"
  \/ run.error.t # "string" /\ ~Falsy(run.error)

C7_FailureStep ==
  \A r \in 1..Len(reqs') :
    (/\ Throws(reqs'[r])
     /\ reqs'[r].pc = "done"
     /\ r <= Len(reqs) => reqs[r].pc # "done")
      => /\ reqs'[r].response =
              [status |-> 500, success |-> FALSE, error |-> "Processing failed"]
         /\ memory' = memory
         /\ applied' = applied
         /\ \A i \in 1..Len(applied') : applied'[i] # r
         /\ memory'.totalErrors = Len(applied')
         /\ memory'.totalErrors = SumCounts(memory'.statistics.errorTypes)
         /\ memory'.totalErrors = SumCounts(memory'.statistics.severityCount)
         /\ \A i \in 1..Len(memory'.workflows) :
              \E q \in 1..Len(reqs') :
                q # r /\ reqs'[q].response.status = 200
                      /\ memory'.workflows[i].id = reqs'[q].eventId

C8_ResponseStep ==
  \A r \in Runs :
    (reqs[r].response.status = 0 /\ reqs'[r].response.status = 200)
      => LET resp == reqs'[r].response IN
         /\ resp.success = TRUE
         /\ resp.workflow = WorkflowResult(reqs[r].error.s)
         /\ resp.memory = memory'
         /\ resp.memory.totalErrors >= 1
         /\ resp.memory.workflows[1].id = reqs[r].eventId
         /\ resp.memory.workflows[1].result = resp.workflow

C8_SuccessResponse == [][C8_ResponseStep]_vars

\* a request was answered with success after another request, with another
\* eventId and another text, had been applied during its run
C8_Witness ==
  \E r, q \in Runs :
    /\ reqs[r].response.status = 200
    /\ reqs[r].response.memory.totalErrors = 2
    /\ reqs[q].response.status = 200
    /\ reqs[q].eventId # reqs[r].eventId
    /\ reqs[q].error # reqs[r].error
    /\ Overlapped(r, q)

(* C9: when the requests carry pairwise distinct eventIds, no two          *)
(* published events have the same id.                                      *)
C9_UniqueEventIds ==
  (\A r, q \in Runs :
     (r # q /\ reqs[r].error.t # "unread" /\ reqs[q].error.t # "unread")
       => reqs[r].eventId # reqs[q].eventId)
  => \A i, j \in 1..Len(published) :
       i # j => published[i].id # published[j].id

(* C10: the store carried by a published memory_update event keeps the     *)
(* contents the store had right after that request's update, which are the *)
(* contents returned in that request's success response, whatever updates  *)
(* other requests make later.                                              *)
C10_SnapshotKept ==
  \A i \in 1..Len(published) :
    published[i].type = "memory_update"
      => DataOf(published[i]) = reqs[published[i].req].response.memory

(* C11: totalErrors never decreases, and in every state between two        *)
(* handler segments it equals the number of requests classified so far,    *)
(* the number of completed events and the number of memory_update events   *)
(* published so far.                                                       *)
CountEvents(log, type) == Len(SelectSeq(log, LAMBDA e : e.type = type))

Tally(m, rs, log, order) ==
  /\ m.totalErrors = Len(order)
  /\ m.totalErrors = Cardinality({r \in 1..Len(rs) : rs[r].response.status = 200})
  /\ m.totalErrors = CountEvents(log, "completed")
  /\ m.totalErrors = CountEvents(log, "memory_update")

C11_TotalStep ==
  /\ memory'.totalErrors >= memory.totalErrors
  /\ Tally(memory, reqs, published, applied)
  /\ Tally(memory', reqs', published', applied')

C11_TotalMonotone == [][C11_TotalStep]_vars

\* one request was classified and counted; the other run, rejected or
\* failed, is not in the count
C11_Witness ==
  /\ memory.totalErrors = 1
  /\ CountEvents(published, "completed") = 1
  /\ \E r \in Runs : reqs[r].pc = "done" /\ reqs[r].response.status # 200
  /\ Len(reqs) = 2

(* C12: lastProcessed is null while no request has been applied; after     *)
(* that it is the first min(100, length) characters of the text of the     *)
(* request applied last, the request whose record is workflows[0], and it  *)
(* is never longer than 100 characters, under every interleaving.          *)
C12_LastProcessed ==
  IF applied = <<>>
  THEN memory.lastProcessed = Null /\ memory.workflows = <<>>
  ELSE LET last == applied[Len(applied)]
           text == reqs[last].error.s
           n == IF Len(text) < 100 THEN Len(text) ELSE 100
       IN /\ memory.lastProcessed.t = "string"
          /\ Len(memory.lastProcessed.s) = n
          /\ Len(memory.lastProcessed.s) <= 100
          /\ \A i \in 1..n : memory.lastProcessed.s[i] = text[i]
          /\ memory.workflows[1] = RecordOf(last)

\* the request applied last had a text of 104 characters and arrived before
\* a request with a short text that was applied earlier
C12_Witness ==
  /\ Len(applied) = 2
  /\ applied[2] < applied[1]
  /\ Len(reqs[applied[2]].error.s) = 104
  /\ Len(reqs[applied[1]].error.s) < 100
  /\ Len(memory.lastProcessed.s) = 100

(* C13: an observer of the event hub receives exactly the events published *)
(* between its registration and its unsubscription (or now, if it is still *)
(* registered), in publication order: never an event published before it   *)
(* registered, every event published after, and none once it has           *)
(* unsubscribed.                                                           *)
Lifecycle(received) == SelectSeq(received, LAMBDA e : e.type # "connected")

C13_SubscriberStream ==
  \A s \in 1..Len(subscribers) :
    LET sub == subscribers[s]
        last == IF sub.active THEN Len(published) ELSE sub.upto
    IN Lifecycle(sub.received) = SubSeq(published, sub.from + 1, last)

\* an observer registered after the first event, received later events and
\* unsubscribed before the last ones, while a second observer stayed
C13_Witness ==
  \E s, t \in 1..Len(subscribers) :
    /\ subscribers[s].from >= 1
    /\ ~subscribers[s].active
    /\ subscribers[s].upto > subscribers[s].from
    /\ Len(published) > subscribers[s].upto
    /\ subscribers[t].active
    /\ Len(Lifecycle(subscribers[t].received)) >
         Len(Lifecycle(subscribers[s].received))

(* Auxiliary: the keyword occurs in the text with each letter in either    *)
(* case.                                                                   *)
UpperOf(c) ==
  IF \E i \in 1..26 : LowerChars[i] = c
  THEN UpperChars[CHOOSE i \in 1..26 : LowerChars[i] = c]
  ELSE c

Has(text, kw) ==
  \E i \in 1..(Len(text) - Len(kw) + 1) :
    \A j \in 1..Len(kw) :
      text[i + j - 1] = kw[j] \/ text[i + j - 1] = UpperOf(kw[j])

\* the request of SpecClassify was classified
Classifications ==
  {r \in Runs : reqs[r].response.status = 200}

(* C14: the severity of a text is critical when it contains "critical" or  *)
(* "fatal" in any letter case, whatever else it contains; otherwise high   *)
(* when it contains "error" or "exception"; otherwise medium when it       *)
(* contains "warning"; otherwise low.                                      *)
C14_Severity ==
  \A r \in Classifications :
    LET text == reqs[r].error.s
        severity == reqs[r].response.workflow.severity
    IN /\ (Has(text, KwCritical) \/ Has(text, KwFatal))
            => severity = "critical"
       /\ (~Has(text, KwCritical) /\ ~Has(text, KwFatal)
             /\ (Has(text, KwError) \/ Has(text, KwException)))
            => severity = "high"
       /\ (~Has(text, KwCritical) /\ ~Has(text, KwFatal)
             /\ ~Has(text, KwError) /\ ~Has(text, KwException)
             /\ Has(text, KwWarning))
            => severity = "medium"
       /\ (~Has(text, KwCritical) /\ ~Has(text, KwFatal)
             /\ ~Has(text, KwError) /\ ~Has(text, KwException)
             /\ ~Has(text, KwWarning))
            => severity = "low"

\* "errorFatalwarning" was classified as critical
C14_Witness ==
  \E r \in Classifications :
    /\ reqs[r].error.s = WError \o WFatal \o WWarning
    /\ reqs[r].response.workflow.severity = "critical"

(* C15: the error type of a text is that of the first of syntax, type,     *)
(* reference, network, timeout that occurs in it in any letter case, and   *)
(* General Error exactly when none of the five occurs; a text with none of *)
(* the recognised keywords is a General Error of severity low.             *)
TypeKeywords == <<KwSyntax, KwType, KwReference, KwNetwork, KwTimeout>>
TypeTags ==
  <<"Syntax Error", "Type Error", "Reference Error", "Network Error",
    "Timeout Error">>
SeverityKeywords == {KwCritical, KwFatal, KwError, KwException, KwWarning}

C15_ErrorType ==
  \A r \in Classifications :
    LET text == reqs[r].error.s
        result == reqs[r].response.workflow
    IN /\ \A i \in 1..5 :
            (Has(text, TypeKeywords[i])
               /\ \A j \in 1..(i - 1) : ~Has(text, TypeKeywords[j]))
              => result.errorType = TypeTags[i]
       /\ result.errorType = "General Error"
            <=> \A i \in 1..5 : ~Has(text, TypeKeywords[i])
       /\ ((\A i \in 1..5 : ~Has(text, TypeKeywords[i]))
             /\ \A kw \in SeverityKeywords : ~Has(text, kw))
            => result.errorType = "General Error" /\ result.severity = "low"

\* "TYPESyntax" was classified as a Syntax Error
C15_Witness ==
  \E r \in Classifications :
    /\ reqs[r].error.s = WType \o WSyntax
    /\ reqs[r].response.workflow.errorType = "Syntax Error"

(* C16: the suggestions are the two baseline suggestions, then the two     *)
(* syntax suggestions iff the text contains "syntax", then the two network *)
(* suggestions iff it contains "network", then the two timeout suggestions *)
(* iff it contains "timeout", in any letter case and whatever the error    *)
(* type; the README's TypeError example gets the two baseline suggestions. *)
C16_Expected(text) ==
  <<"Review error logs for additional context", "Check recent code changes">>
  \o (IF Has(text, KwSyntax)
      THEN <<"Validate code syntax", "Check for missing brackets or semicolons">>
      ELSE <<>>)
  \o (IF Has(text, KwNetwork)
      THEN <<"Verify network connectivity", "Check API endpoints">>
      ELSE <<>>)
  \o (IF Has(text, KwTimeout)
      THEN <<"Increase timeout duration", "Optimize query performance">>
      ELSE <<>>)

CountOf(counts, k) == IF k \in DOMAIN counts THEN counts[k] ELSE 0

OneRaised(old, new) ==
  \E k \in DOMAIN new :
    /\ CountOf(new, k) = CountOf(old, k) + 1
    /\ \A j \in (DOMAIN new \cup DOMAIN old) \ {k} :
         CountOf(new, j) = CountOf(old, j)

Aggregates(r) ==
  /\ r <= Len(reqs)
  /\ reqs[r].pc = "processing"
  /\ reqs'[r].pc = "done"
  /\ reqs'[r].response.status = 200

C17_StoreStep ==
  /\ memory' # memory => \E r \in 1..Len(reqs') : Aggregates(r)
  /\ \A r \in 1..Len(reqs') :
       /\ (r > Len(reqs) \/ (reqs'[r] # reqs[r] /\ ~Aggregates(r)))
            => memory' = memory
       /\ Aggregates(r) =>
            /\ memory'.totalErrors = memory.totalErrors + 1
            /\ OneRaised(memory.statistics.errorTypes,
                         memory'.statistics.errorTypes)
            /\ OneRaised(memory.statistics.severityCount,
                         memory'.statistics.severityCount)
            /\ \A i \in 1..Len(applied) : applied[i] # r
       /\ reqs'[r].response.status = 200 =>
            Cardinality({i \in 1..Len(applied') : applied'[i] = r}) = 1
       /\ reqs'[r].response.status # 200 =>
            \A i \in 1..Len(applied') : applied'[i] # r

C17_StoreFrame == [][C17_StoreStep]_vars

\* one request has been aggregated while another, already validated, waits
\* for its workflow timer; the store holds one entry of each kind
C17_Witness ==
  \E r, q \in Runs :
    /\ reqs[r].response.status = 200
    /\ reqs[q].pc = "processing"
    /\ memory.totalErrors = 1
    /\ Cardinality(DOMAIN memory.statistics.errorTypes) = 1
    /\ Cardinality(DOMAIN memory.statistics.severityCount) = 1

(* C18: the store update, the memory_update event and the completed event  *)
(* of a request happen in one step.  In the publication sequence each      *)
(* memory_update event is directly followed by the completed event of the  *)
(* same request; the step that publishes them is the step that applies     *)
(* the request's update, and at that moment the store the memory_update    *)
(* event carries has workflows[0].id equal to the request's eventId.       *)
Adjacent(log) ==
  \A i \in 1..Len(log) :
    /\ log[i].type = "memory_update" =>
         /\ i < Len(log)
         /\ log[i + 1].type = "completed"
         /\ log[i + 1].req = log[i].req
    /\ log[i].type = "completed" =>
         /\ i > 1
         /\ log[i - 1].type = "memory_update"
         /\ log[i - 1].req = log[i].req

C18_CompletionStep ==
  /\ Adjacent(published')
  /\ \A i \in (Len(published) + 1)..Len(published') :
       published'[i].type = "memory_update" =>
         LET r == published'[i].req IN
         /\ applied' = Append(applied, r)
         /\ published'[i].data = MemoryRef
         /\ memory'.workflows[1].id = reqs[r].eventId
         /\ Len(published') = i + 1
  /\ applied' # applied =>
       \E i \in (Len(published) + 1)..Len(published') :
         /\ published'[i].type = "memory_update"
         /\ published'[i].req = applied'[Len(applied')]

C18_AtomicCompletion == [][C18_CompletionStep]_vars

\* two requests with different eventIds, in flight together, both
\* completed: the events of the second pair follow those of the first
C18_Witness ==
  \E r, q \in Runs :
    /\ Overlapped(r, q)
    /\ reqs[r].eventId # reqs[q].eventId
    /\ reqs[r].response.status = 200
    /\ reqs[q].response.status = 200
    /\ Len(published) = 8
    /\ published[5].req # published[7].req
    /\ published[5].type = "memory_update"
    /\ published[7].type = "memory_update"

====
